---- MODULE Spec2Model ----
(***************************************************************************)
(* The Scryfall client (client.go): the bulk download pipeline             *)
(* (DownloadBulkDataStream, DownloadBulkData, DownloadToFile,              *)
(* ProcessBulkDataStream, progressReader) and the rate-limited endpoint    *)
(* calls (GetCardByID, ListBulkData, ListSets, GetBulkDataByType over get).*)
(*                                                                         *)
(* A response body is a sequence of JSON lexemes; it is produced by the    *)
(* server chunk by chunk as the client reads it.  One lexeme counts as one *)
(* byte of the body.                                                       *)
(***************************************************************************)
EXTENDS Integers, Sequences, FiniteSets, TLC

\* Bounds.
MaxBody == 5      \* lexemes of a body that is decoded
MaxFile == 3      \* lexemes of a body that is copied to a file
MaxChunk == 2     \* lexemes one Read returns
NumCallers == 2   \* concurrent callers of the endpoint operations
Burst == 1        \* burst size of the rate limiter the client is given

\* ------------------------------------------------------------------ values

\* The lexemes of a body: the array delimiters, the comma, a stray closing
\* brace, two record objects, and a JSON value that is no record (a number
\* or a string; null, which Decode accepts as the zero Card, is not among
\* them).
RecordTexts == {"{card-1}", "{card-2}"}
Scalar == "7"
Lexemes == {"[", "]", ",", "}", Scalar} \cup RecordTexts

\* encoding/json decoding one record object into a Card.
DecodeCard(x) ==
    CASE x = "{card-1}" -> [ID |-> "card-1"]
      [] x = "{card-2}" -> [ID |-> "card-2"]

NoCard == [ID |-> ""]

\* Error values.  msg is the message of the outermost error, cause the error
\* it wraps with %w ("" when it wraps none), code the status code it carries.
Err(msg, cause, code) ==
    [msg |-> msg, cause |-> cause, code |-> code, details |-> "", type |-> ""]

Nil == Err("nil", "", 0)

\* What the caller's record callback may return: nil or an error of its own.
CallbackErr == Err("callback stop", "", 0)

Statuses == {200, 404, 429}

Uris == {"", "%zz", "https://data.scryfall.io/bulk.json"}

\* http.NewRequestWithContext fails on a URL that does not parse.
UrlParses(u) == u # "%zz"

\* The id or type tag an endpoint operation is given.
Ids == {"", "%zz", "abc-123"}

\* The bodies of an endpoint response: none, the API's error object, the
\* object the operation asks for, text that is no JSON, and a body the read
\* of which fails.
ErrorJSON == "{details:slow down,type:rate_limited}"
ResultJSON == "{id:abc-123}"
Unreadable == "<connection reset>"
EndpointBodies == {"", ErrorJSON, ResultJSON, "<html>", Unreadable}

Callers == 1..NumCallers

Chunks == UNION {[1..n -> Lexemes] : n \in 0..MaxChunk}

VARIABLES
    op,          \* the bulk operation called, "none" before the call
    pc,          \* where the call is
    uri,         \* its downloadURI argument
    status,      \* the status of the response it obtained, 0 before
    progressFn,  \* TRUE when the caller passed a progress callback
    requests,    \* HTTP requests the bulk call issued
    sent,        \* every lexeme the response body has yielded so far
    eof,         \* the body has reported end-of-stream
    buf,         \* json.Decoder: lexemes read and not yet scanned
    rdErr,       \* json.Decoder.peek: the error of its last refill
    tokenState,  \* json.Decoder.tokenState
    Current,     \* progressReader.Current
    progress,    \* the running totals passed to the progress callback
    card,        \* the record decoded and not yet delivered
    delivered,   \* the records passed to the record callback, in order
    cbRet,       \* what the record callback returned last (Nil before)
    cards,       \* DownloadBulkData: the slice its closure appends to
    err,         \* the error the call returned (Nil: none)
    bodyOpen,    \* the response body is obtained and not closed
    fileOpen,    \* DownloadToFile: the destination is created and not closed
    written,     \* DownloadToFile: the lexemes copied to the destination
    result,      \* DownloadBulkData: the cards it returned (nil before)
    calls,       \* the endpoint call of each caller
    tokens,      \* rate.Limiter: the events it permits now
    refilled     \* rate.Limiter: the events it has added to those over time

bulkVars == <<op, pc, uri, status, progressFn, requests, sent, eof, buf,
              rdErr, tokenState, Current, progress, card, delivered, cbRet, cards,
              err, bodyOpen, fileOpen, written, result>>

vars == <<bulkVars, calls, tokens, refilled>>

streamVars == <<sent, eof, buf, rdErr, Current, progress>>

BulkInit ==
    /\ op = "none"
    /\ pc = "idle"
    /\ uri = ""
    /\ status = 0
    /\ progressFn = FALSE
    /\ requests = 0
    /\ sent = <<>>
    /\ eof = FALSE
    /\ buf = <<>>
    /\ rdErr = "none"
    /\ tokenState = "tokenTopValue"
    /\ Current = 0
    /\ progress = <<>>
    /\ card = NoCard
    /\ delivered = <<>>
    /\ cbRet = Nil
    /\ cards = <<>>
    /\ err = Nil
    /\ bodyOpen = FALSE
    /\ fileOpen = FALSE
    /\ written = <<>>
    /\ result = <<>>

\* The deferred close left out: the handle stays as it is.
CloseSkipped(h) == h

\* Lines 180-182, 220-222, 232-234, 341-343: the deferred resp.Body.Close()
\* or out.Close() run at the return: whether the handle, open or not (h)
\* before it, is open afterwards.
Close(h) == FALSE

\* The collected cards dropped when the stream failed.
ReturnedNilOnError(cs, e) == IF e = Nil THEN cs ELSE <<>>

\* Line 311: the cards DownloadBulkData returns beside error e, cs being
\* what its closure has collected.
Returned(cs, e) == cs

\* Bulk operation o returns error e (Nil: success); DownloadBulkData returns
\* its cards beside it.
Exit(o, e) ==
    /\ pc' = "done"
    /\ err' = e
    /\ result' = IF o = "DownloadBulkData" THEN Returned(cards, e) ELSE result

\* A return of the bulk call with error e (Nil: success).  The deferred
\* closes run: the response body and the destination file are closed.
Return(e) ==
    /\ Exit(op, e)
    /\ bodyOpen' = Close(bodyOpen)
    /\ fileOpen' = Close(fileOpen)

\* The bulk calls and the endpoint calls share no state (only the endpoint
\* calls pass the rate limiter): a run holds one bulk call, or the endpoint
\* calls of the callers.
NoEndpointCall == \A p \in Callers : calls[p].pc = "idle"
NoBulkCall == pc = "idle"

Goto(l) ==
    /\ pc' = l
    /\ UNCHANGED <<err, bodyOpen, fileOpen, result>>

\* ------------------------------------------------- the body and its reader

\* One Read of the response body: the server yields chunk c, and reports
\* end-of-stream when e.  Once it has reported end-of-stream, every later
\* Read yields nothing and reports it again.
BodyYields(c, e) ==
    IF eof THEN c = <<>> /\ e
    ELSE /\ Len(sent) + Len(c) <= (IF pc = "copy" THEN MaxFile ELSE MaxBody)
         /\ (c = <<>> => e)

\* The running total assigned, not added to.
AccumulateLast(cur, n) == n

\* progressReader.Read: the running total after a read of n bytes.
Accumulate(cur, n) == cur + n

\* progressReader.Read: what the progress callback has been told after a read
\* that leaves the running total at cur.
Notify(log, cur) == Append(log, cur)

\* A Read of the body by the call, through the progressReader when the caller
\* passed a progress callback.
Read(c, e) ==
    /\ BodyYields(c, e)
    /\ sent' = sent \o c
    /\ eof' = e
    /\ Current' = IF progressFn THEN Accumulate(Current, Len(c)) ELSE Current
    /\ progress' = IF progressFn THEN Notify(progress, Current') ELSE progress

\* ------------------------------------------------------ the JSON decoder

\* json.Decoder.peek: the next lexeme, "EOF" when the refill found none.
Ready == buf # <<>> \/ rdErr = "EOF"
Peek == IF buf # <<>> THEN Head(buf) ELSE "EOF"

\* json.Decoder.refill, called by peek and readValue on an empty buffer.
Refill ==
    /\ UNCHANGED <<calls, tokens, refilled>>
    /\ pc \in {"open", "more", "decode", "close"}
    /\ pc = "decode" => tokenState # "tokenArrayComma"
    /\ buf = <<>>
    /\ rdErr = "none"
    /\ \E c \in Chunks, e \in BOOLEAN :
          /\ Read(c, e)
          /\ buf' = c
          /\ rdErr' = IF c = <<>> THEN "EOF" ELSE "none"
    /\ UNCHANGED <<op, pc, uri, status, progressFn, requests, tokenState, card,
                   delivered, cbRet, cards, err, bodyOpen, fileOpen, written,
                   result>>

ValueAllowed(ts) ==
    ts \in {"tokenTopValue", "tokenArrayStart", "tokenArrayValue"}

\* json.Decoder.Token in token state ts with x the next lexeme: the error it
\* returns ("" for none) and the token (a delimiter, or "value" for a scalar).
\* Of an object it returns the opening brace.  (In tokenArrayComma Token
\* skips a comma and goes on to the next token; ProcessBulkDataStream never
\* calls it there with a comma next, as More has just returned false.)
Token(ts, x) ==
    CASE x = "EOF" -> [err |-> "EOF", tok |-> ""]
      [] x = "[" -> IF ValueAllowed(ts) THEN [err |-> "", tok |-> "["]
                    ELSE [err |-> "syntax", tok |-> ""]
      [] x = "]" -> IF ts \in {"tokenArrayStart", "tokenArrayComma"}
                    THEN [err |-> "", tok |-> "]"]
                    ELSE [err |-> "syntax", tok |-> ""]
      [] x \in RecordTexts -> IF ValueAllowed(ts) THEN [err |-> "", tok |-> "{"]
                              ELSE [err |-> "syntax", tok |-> ""]
      [] x = Scalar -> IF ValueAllowed(ts) THEN [err |-> "", tok |-> "value"]
                       ELSE [err |-> "syntax", tok |-> ""]
      [] OTHER -> [err |-> "syntax", tok |-> ""]

\* json.Decoder.More with x the next lexeme.
More(x) == x # "EOF" /\ x # "]" /\ x # "}"

\* json.Decoder.Decode(&card) with x the next lexeme: the error it returns
\* ("" for none) and the Card.  A scalar is a JSON value that is no Card; of
\* a nested array the decoder reports that it is no Card once it has scanned
\* it (the scan is not modelled).
Decode(x) ==
    CASE x = "EOF" -> [err |-> "EOF", card |-> NoCard]
      [] x \in RecordTexts -> [err |-> "", card |-> DecodeCard(x)]
      [] x \in {Scalar, "["} -> [err |-> "type", card |-> NoCard]
      [] OTHER -> [err |-> "syntax", card |-> NoCard]

\* ------------------------------------------------- ProcessBulkDataStream

\* The opening check without the test of the delimiter.
OpeningResultAnyToken(t) ==
    IF t.err # "" THEN Err("decode opening bracket", t.err, 0) ELSE Nil

\* Lines 257-263: what the opening token makes the call return (Nil: go on).
OpeningResult(t) ==
    IF t.err # "" THEN Err("decode opening bracket", t.err, 0)
    ELSE IF t.tok # "[" THEN Err("expected '[' at start of bulk data", "", 0)
    ELSE Nil

\* Lines 267-269: what a failed Decode makes the call return.
DecodeFailure(e) == Err("decode card object", e, 0)

\* The callback's error wrapped like a decoder error.
CallbackResultWrapped(r) ==
    IF r = Nil THEN Nil ELSE Err("decode card object", r.msg, 0)

\* Lines 270-272: what the callback's return value r makes the call return.
CallbackResult(r) == r

\* The closing check written as a copy of the opening check.
ClosingResultOpen(t) ==
    IF t.err # "" THEN Err("decode closing bracket", t.err, 0)
    ELSE IF t.tok # "[" THEN Err("expected ']' at end of bulk data", "", 0)
    ELSE Nil

\* The closing check with the tokenizer's error dropped.
ClosingResultSwallowed(t) ==
    IF t.err # "" THEN Nil
    ELSE IF t.tok # "]" THEN Err("expected ']' at end of bulk data", "", 0)
    ELSE Nil

\* Lines 276-284: what the closing token makes the call return.
ClosingResult(t) ==
    IF t.err # "" THEN Err("decode closing bracket", t.err, 0)
    ELSE IF t.tok # "]" THEN Err("expected ']' at end of bulk data", "", 0)
    ELSE Nil

\* The closure keeping the last card only.
CollectLast(cs, c) == <<c>>

\* DownloadBulkData's closure: cards = append(cards, card).
Collect(cs, c) == Append(cs, c)

\* ProcessBulkDataStream called on a reader of the caller's own.
ProcessBulkDataStream ==
    /\ UNCHANGED <<calls, tokens, refilled>>
    /\ pc = "idle"
    /\ NoEndpointCall
    /\ op' = "ProcessBulkDataStream"
    /\ Goto("open")
    /\ UNCHANGED <<uri, status, progressFn, requests, streamVars, tokenState,
                   card, delivered, cbRet, cards, written>>

\* dec.Token() for the opening bracket.
OpeningToken ==
    /\ UNCHANGED <<calls, tokens, refilled>>
    /\ pc = "open"
    /\ Ready
    /\ LET r == OpeningResult(Token(tokenState, Peek)) IN
          IF r = Nil
          THEN /\ Goto("more")
               /\ buf' = Tail(buf)
               /\ tokenState' = "tokenArrayStart"
          ELSE /\ Return(r)
               /\ UNCHANGED <<buf, tokenState>>
    /\ rdErr' = "none"
    /\ UNCHANGED <<op, uri, status, progressFn, requests, sent, eof, Current,
                   progress, card, delivered, cbRet, cards, written>>

\* for dec.More()
LoopTest ==
    /\ UNCHANGED <<calls, tokens, refilled>>
    /\ pc = "more"
    /\ Ready
    /\ Goto(IF More(Peek) THEN "decode" ELSE "close")
    /\ rdErr' = "none"
    /\ UNCHANGED <<op, uri, status, progressFn, requests, sent, eof, buf,
                   Current, progress, tokenState, card, delivered, cbRet, cards,
                   written>>

\* dec.Decode(&card), tokenPrepareForDecode: after an element a comma must
\* come next.
DecodeComma ==
    /\ UNCHANGED <<calls, tokens, refilled>>
    /\ pc = "decode"
    /\ tokenState = "tokenArrayComma"
    /\ IF Peek = ","
       THEN /\ Goto("decode")
            /\ buf' = Tail(buf)
            /\ tokenState' = "tokenArrayValue"
       ELSE /\ Return(DecodeFailure("syntax"))
            /\ UNCHANGED <<buf, tokenState>>
    /\ UNCHANGED <<op, uri, status, progressFn, requests, sent, eof, rdErr,
                   Current, progress, card, delivered, cbRet, cards, written>>

\* Decode with the callback invoked before the error is looked at.
DecodeValueUnchecked ==
    /\ UNCHANGED <<calls, tokens, refilled>>
    /\ pc = "decode"
    /\ tokenState # "tokenArrayComma"
    /\ Ready
    /\ Goto("callback")
    /\ card' = Decode(Peek).card
    /\ buf' = IF buf # <<>> THEN Tail(buf) ELSE buf
    /\ tokenState' = "tokenArrayComma"
    /\ rdErr' = "none"
    /\ UNCHANGED <<op, uri, status, progressFn, requests, sent, eof, Current,
                   progress, delivered, cbRet, cards, written>>

\* dec.Decode(&card), the value.
DecodeValue ==
    /\ UNCHANGED <<calls, tokens, refilled>>
    /\ pc = "decode"
    /\ tokenState # "tokenArrayComma"
    /\ Ready
    /\ LET d == Decode(Peek) IN
          IF d.err = ""
          THEN /\ Goto("callback")
               /\ card' = d.card
               /\ buf' = Tail(buf)
               /\ tokenState' = "tokenArrayComma"
          ELSE /\ Return(DecodeFailure(d.err))
               /\ UNCHANGED <<card, buf, tokenState>>
    /\ rdErr' = "none"
    /\ UNCHANGED <<op, uri, status, progressFn, requests, sent, eof, Current,
                   progress, delivered, cbRet, cards, written>>

\* cardCallback(card): the caller's callback returns r; DownloadBulkData's
\* closure appends the card and returns nil.
Callback ==
    /\ UNCHANGED <<calls, tokens, refilled>>
    /\ pc = "callback"
    /\ \E r \in {Nil, CallbackErr} :
          /\ op = "DownloadBulkData" => r = Nil
          /\ cbRet' = r
          /\ IF CallbackResult(r) = Nil
             THEN Goto("more")
             ELSE Return(CallbackResult(r))
    /\ delivered' = Append(delivered, card)
    /\ cards' = IF op = "DownloadBulkData" THEN Collect(cards, card) ELSE cards
    /\ card' = NoCard
    /\ UNCHANGED <<op, uri, status, progressFn, requests, streamVars,
                   tokenState, written>>

\* dec.Token() for the closing bracket.
ClosingToken ==
    /\ UNCHANGED <<calls, tokens, refilled>>
    /\ pc = "close"
    /\ Ready
    /\ Return(ClosingResult(Token(tokenState, Peek)))
    /\ buf' = IF buf # <<>> THEN Tail(buf) ELSE buf
    /\ rdErr' = "none"
    /\ UNCHANGED <<op, uri, status, progressFn, requests, sent, eof, Current,
                   progress, tokenState, card, delivered, cbRet, cards, written>>

\* --------------------------------------------------- the download calls

\* The argument check left out.
ArgMissingNever(a) == FALSE

\* Lines 107-109, 145-147, 160-162, 202-204: the required argument is
\* missing.
ArgMissing(a) == a = ""

\* The status check taking server errors only for failures.
StatusFailsServerOnly(s) == s >= 500

\* Lines 184, 224, 345: the response is an error response.
StatusFails(s) == s >= 400

\* Lines 159-174 and 201-214: the call of download operation o with
\* downloadURI u and (p) a progress callback, up to the request it builds.
Download(o, u, p) ==
    /\ UNCHANGED <<calls, tokens, refilled>>
    /\ pc = "idle"
    /\ NoEndpointCall
    /\ op' = o
    /\ uri' = u
    /\ progressFn' = p
    /\ IF ArgMissing(u)
       THEN /\ Exit(o, Err("download URI is required", "", 0))
            /\ UNCHANGED <<bodyOpen, fileOpen>>
       ELSE IF ~UrlParses(u)
       THEN /\ Exit(o, Err("create request", "parse", 0))
            /\ UNCHANGED <<bodyOpen, fileOpen>>
       ELSE Goto("do")
    /\ UNCHANGED <<status, requests, streamVars, tokenState, card, delivered, cbRet,
                   cards, written>>

DownloadBulkDataStream ==
    \E u \in Uris, p \in BOOLEAN : Download("DownloadBulkDataStream", u, p)

\* DownloadBulkData: DownloadBulkDataStream with its closure and no progress
\* callback.
DownloadBulkData ==
    \E u \in Uris : Download("DownloadBulkData", u, FALSE)

DownloadToFile ==
    \E u \in Uris, p \in BOOLEAN : Download("DownloadToFile", u, p)

\* c.httpClient.Do(req) fails: no response.
DoFails ==
    /\ UNCHANGED <<calls, tokens, refilled>>
    /\ pc = "do"
    /\ requests' = requests + 1
    /\ Return(Err("perform request", "transport", 0))
    /\ UNCHANGED <<op, uri, status, progressFn, streamVars, tokenState, card,
                   delivered, cbRet, cards, written>>

\* c.httpClient.Do(req) returns a response of status s, the close of its
\* body is deferred; the status check.
DoResponds ==
    /\ UNCHANGED <<calls, tokens, refilled>>
    /\ pc = "do"
    /\ requests' = requests + 1
    /\ \E s \in Statuses :
          /\ status' = s
          /\ IF StatusFails(s)
             THEN /\ Exit(op, Err("download failed with status", "", s))
                  /\ bodyOpen' = Close(TRUE)
                  /\ UNCHANGED fileOpen
             ELSE /\ pc' = IF op = "DownloadToFile" THEN "create" ELSE "open"
                  /\ bodyOpen' = TRUE
                  /\ UNCHANGED <<err, fileOpen, result>>
    /\ UNCHANGED <<op, uri, progressFn, streamVars, tokenState, card,
                   delivered, cbRet, cards, written>>

\* DownloadToFile: os.Create(filePath).
CreateFile ==
    /\ UNCHANGED <<calls, tokens, refilled>>
    /\ pc = "create"
    /\ \E ok \in BOOLEAN :
          IF ok
          THEN /\ pc' = "copy"
               /\ fileOpen' = TRUE
               /\ UNCHANGED <<err, bodyOpen, result>>
          ELSE Return(Err("create file", "os", 0))
    /\ UNCHANGED <<op, uri, status, progressFn, requests, streamVars,
                   tokenState, card, delivered, cbRet, cards, written>>

\* DownloadToFile: one round of io.Copy(out, reader): a Read, the write of
\* what it returned (which succeeds when ok), and the end at end-of-stream.
Copy ==
    /\ UNCHANGED <<calls, tokens, refilled>>
    /\ pc = "copy"
    /\ \E c \in Chunks, e \in BOOLEAN, ok \in BOOLEAN :
          /\ Read(c, e)
          /\ c = <<>> => ok
          /\ IF ~ok
             THEN /\ Return(Err("copy to file", "write", 0))
                  /\ UNCHANGED written
             ELSE /\ written' = written \o c
                  /\ IF e THEN Return(Nil) ELSE Goto("copy")
    /\ UNCHANGED <<op, uri, status, progressFn, requests, buf, rdErr,
                   tokenState, card, delivered, cbRet, cards>>

\* ------------------------------------------------ the endpoint operations

NoCall ==
    [pc |-> "idle", op |-> "none", arg |-> "", cancelled |-> FALSE,
     taken |-> 0, reqs |-> 0, status |-> 0, body |-> "", err |-> Nil,
     dest |-> "none", bodyOpen |-> FALSE]

\* Lines 107-109, 145-147: the error for a missing required argument.
Required(o) ==
    IF o = "GetCardByID" THEN Err("card id is required", "", 0)
    ELSE Err("bulk type is required", "", 0)

TakesArg(o) == o \in {"GetCardByID", "GetBulkDataByType"}

\* Lines 110, 123, 134, 148: the path of the operation.
PathOf(o, a) ==
    CASE o = "GetCardByID" -> <<"/cards/", a>>
      [] o = "ListBulkData" -> <<"/bulk-data">>
      [] o = "ListSets" -> <<"/sets">>
      [] o = "GetBulkDataByType" -> <<"/bulk-data/", a>>

\* url.Parse(path) succeeds.
PathParses(path) == \A i \in 1..Len(path) : path[i] # "%zz"

\* The error of limiter.Wait ignored.
GateResultIgnored(w) == Nil

\* Lines 318-320: what the error w of limiter.Wait ("" for none) makes get
\* return (Nil: go on).
GateResult(w) ==
    IF w # "" THEN Err("wait for rate limiter", w, 0) ELSE Nil

\* The APIError without the status code attached.
APIErrorNoStatus(code, details, type) ==
    [msg |-> "scryfall api error", cause |-> "", code |-> 0,
     details |-> details, type |-> type]

\* Lines 350-351, 365-370: an APIError value: the status code attached and
\* the fields of the body.
APIError(code, details, type) ==
    [msg |-> "scryfall api error", cause |-> "", code |-> code,
     details |-> details, type |-> type]

\* json.Unmarshal(body, &apiErr): unknown fields are ignored.
UnmarshalAPIError(b) ==
    CASE b = ErrorJSON -> [err |-> "", details |-> "slow down",
                           type |-> "rate_limited"]
      [] b = ResultJSON -> [err |-> "", details |-> "", type |-> ""]
      [] OTHER -> [err |-> "syntax", details |-> "", type |-> ""]

\* decodeAPIError(resp.Body).
decodeAPIError(b) ==
    IF b = Unreadable THEN [err |-> "read", details |-> "", type |-> ""]
    ELSE IF b = "" THEN [err |-> "", details |-> "", type |-> ""]
    ELSE UnmarshalAPIError(b)

\* json.Unmarshal(body, dest): the error and what dest holds afterwards.
UnmarshalDest(b) ==
    CASE b = ResultJSON -> [err |-> "", dest |-> "abc-123"]
      [] b = ErrorJSON -> [err |-> "", dest |-> "zero"]
      [] OTHER -> [err |-> "syntax", dest |-> "none"]

\* Lines 345-361: what get returns for a response of status s and body b,
\* and what dest holds.
Response(s, b) ==
    IF StatusFails(s)
    THEN LET a == decodeAPIError(b) IN
         IF a.err # ""
         THEN [err |-> Err("scryfall error status", a.err, s), dest |-> "none"]
         ELSE [err |-> APIError(s, a.details, a.type), dest |-> "none"]
    ELSE IF b = Unreadable
    THEN [err |-> Err("read response body", "read", 0), dest |-> "none"]
    ELSE LET u == UnmarshalDest(b) IN
         IF u.err # ""
         THEN [err |-> Err("decode response", u.err, 0), dest |-> "none"]
         ELSE [err |-> Nil, dest |-> u.dest]

Finish(p, e, d) ==
    calls' = [calls EXCEPT ![p].pc = "done", ![p].err = e, ![p].dest = d]

\* Caller p calls endpoint operation o with argument a, its context
\* cancelled already or not: the argument check, and get up to
\* c.limiter.Wait(ctx), which fails at once on a cancelled context, returns
\* at once when the limiter permits an event, and blocks otherwise.
Endpoint(p, o, a, cancelled) ==
    /\ NoBulkCall
    /\ calls[p].pc = "idle"
    /\ LET c == [calls[p] EXCEPT !.op = o, !.arg = a, !.cancelled = cancelled]
           w == IF cancelled THEN "context canceled" ELSE ""
       IN IF TakesArg(o) /\ ArgMissing(a)
          THEN /\ calls' = [calls EXCEPT ![p] =
                              [c EXCEPT !.pc = "done", !.err = Required(o)]]
               /\ UNCHANGED tokens
          ELSE IF GateResult(w) # Nil
          THEN /\ calls' = [calls EXCEPT ![p] =
                              [c EXCEPT !.pc = "done", !.err = GateResult(w)]]
               /\ UNCHANGED tokens
          ELSE IF w = "" /\ tokens = 0
          THEN /\ calls' = [calls EXCEPT ![p] = [c EXCEPT !.pc = "waiting"]]
               /\ UNCHANGED tokens
          ELSE /\ calls' = [calls EXCEPT ![p] =
                              [c EXCEPT !.pc = "admitted",
                                        !.taken = IF w = "" THEN @ + 1 ELSE @]]
               /\ tokens' = IF w = "" THEN tokens - 1 ELSE tokens
    /\ UNCHANGED <<bulkVars, refilled>>

GetCardByID(p) ==
    \E a \in Ids, c \in BOOLEAN : Endpoint(p, "GetCardByID", a, c)

ListBulkData(p) ==
    \E c \in BOOLEAN : Endpoint(p, "ListBulkData", "", c)

ListSets(p) ==
    \E c \in BOOLEAN : Endpoint(p, "ListSets", "", c)

GetBulkDataByType(p) ==
    \E a \in Ids, c \in BOOLEAN : Endpoint(p, "GetBulkDataByType", a, c)

\* limiter.Wait returns nil to a caller it blocked: the limiter permits an
\* event and the caller takes it.
WaitGranted(p) ==
    /\ calls[p].pc = "waiting"
    /\ tokens > 0
    /\ tokens' = tokens - 1
    /\ calls' = [calls EXCEPT ![p].pc = "admitted", ![p].taken = @ + 1]
    /\ UNCHANGED <<bulkVars, refilled>>

\* The context of a caller blocked in limiter.Wait is cancelled: Wait
\* returns the context's error.
WaitCancelled(p) ==
    /\ calls[p].pc = "waiting"
    /\ LET r == GateResult("context canceled") IN
          calls' = [calls EXCEPT
                       ![p].cancelled = TRUE,
                       ![p].pc = IF r = Nil THEN "admitted" ELSE "done",
                       ![p].err = r]
    /\ UNCHANGED <<bulkVars, tokens, refilled>>

\* Time passes: the limiter permits one more event, up to its burst.
Tick ==
    /\ tokens < Burst
    /\ tokens' = tokens + 1
    /\ refilled' = refilled + 1
    /\ UNCHANGED <<bulkVars, calls>>

\* Lines 322-325: url.Parse(path) fails.
InvalidPath(p) ==
    /\ calls[p].pc = "admitted"
    /\ ~PathParses(PathOf(calls[p].op, calls[p].arg))
    /\ Finish(p, Err("invalid path", "parse", 0), "none")
    /\ UNCHANGED <<bulkVars, tokens, refilled>>

\* Lines 337-340: c.httpClient.Do(req) fails.
GetFails(p) ==
    /\ calls[p].pc = "admitted"
    /\ PathParses(PathOf(calls[p].op, calls[p].arg))
    /\ calls' = [calls EXCEPT ![p].pc = "done", ![p].reqs = @ + 1,
                              ![p].err = Err("perform request", "transport", 0)]
    /\ UNCHANGED <<bulkVars, tokens, refilled>>

\* Lines 337-361: c.httpClient.Do(req) returns a response of status s and
\* body b, the close of the body is deferred, and get returns.
GetResponds(p) ==
    /\ calls[p].pc = "admitted"
    /\ PathParses(PathOf(calls[p].op, calls[p].arg))
    /\ \E s \in Statuses, b \in EndpointBodies :
          LET r == Response(s, b) IN
          calls' = [calls EXCEPT ![p].pc = "done", ![p].reqs = @ + 1,
                                 ![p].status = s, ![p].body = b,
                                 ![p].err = r.err,
                                 ![p].dest = r.dest,
                                 ![p].bodyOpen = Close(TRUE)]
    /\ UNCHANGED <<bulkVars, tokens, refilled>>

Init ==
    /\ BulkInit
    /\ calls = [p \in Callers |-> NoCall]
    /\ tokens = Burst
    /\ refilled = 0

Next ==
    \/ \E p \in Callers :
          \/ GetCardByID(p)
          \/ ListBulkData(p)
          \/ ListSets(p)
          \/ GetBulkDataByType(p)
          \/ WaitGranted(p)
          \/ WaitCancelled(p)
          \/ InvalidPath(p)
          \/ GetFails(p)
          \/ GetResponds(p)
    \/ Tick
    \/ ProcessBulkDataStream
    \/ DownloadBulkDataStream
    \/ DownloadBulkData
    \/ DownloadToFile
    \/ DoFails
    \/ DoResponds
    \/ Refill
    \/ OpeningToken
    \/ LoopTest
    \/ DecodeComma
    \/ DecodeValue
    \/ Callback
    \/ ClosingToken
    \/ CreateFile
    \/ Copy

Spec == Init /\ [][Next]_vars

\* ------------------------------------------------------------ the claims

DecodingOps ==
    {"ProcessBulkDataStream", "DownloadBulkDataStream", "DownloadBulkData"}

DownloadOps == {"DownloadBulkDataStream", "DownloadBulkData", "DownloadToFile"}

\* s is the text of a JSON array of records: "[", the records with a comma
\* between each two, "]".
WellFormedArray(s) ==
    /\ Len(s) >= 2
    /\ s[1] = "["
    /\ s[Len(s)] = "]"
    /\ Len(s) > 2 => Len(s) % 2 = 1
    /\ \A i \in 2..(Len(s) - 1) :
          IF i % 2 = 0 THEN s[i] \in RecordTexts ELSE s[i] = ","

\* The records of the first n elements of array text s.
Elements(s, n) == [i \in 1..n |-> DecodeCard(s[2 * i])]

\* The number of records of well-formed array text s.
Count(s) == (Len(s) - 1) \div 2

\* The part of the body the decoder has scanned, and the records in it.
Scanned == SubSeq(sent, 1, Len(sent) - Len(buf))
RecordsIn(s) ==
    LET r == SelectSeq(s, LAMBDA x : x \in RecordTexts)
    IN [i \in 1..Len(r) |-> DecodeCard(r[i])]

MalformedPayload(e) ==
    e.msg \in {"decode opening bracket", "expected '[' at start of bulk data",
               "decode card object", "decode closing bracket",
               "expected ']' at end of bulk data"}

\* C1: when the body is a well-formed JSON array of N records (N >= 0) and
\* every callback invocation succeeds, the decoding call returns nil and has
\* invoked the callback exactly N times, the i-th time with the i-th element.
C1_WellFormedDelivered ==
    (op \in DecodingOps /\ pc = "done" /\ WellFormedArray(sent) /\ cbRet = Nil)
        => /\ err = Nil
           /\ delivered = Elements(sent, Count(sent))

C1_Witness ==
    /\ op = "ProcessBulkDataStream"
    /\ pc = "done"
    /\ sent = <<"[", "{card-2}", ",", "{card-1}", "]">>
    /\ delivered = <<[ID |-> "card-2"], [ID |-> "card-1"]>>
    /\ err = Nil

\* C2: once the record callback has returned an error, the call has returned
\* exactly that error, unwrapped, and the records delivered are exactly the
\* records decoded: the failing one is the last one delivered and no record
\* after it is decoded or delivered.
C2_CallbackErrorStops ==
    cbRet # Nil
        => /\ pc = "done"
           /\ err = cbRet
           /\ card = NoCard
           /\ delivered = RecordsIn(Scanned)

C2_Witness ==
    /\ pc = "done"
    /\ cbRet = CallbackErr
    /\ Len(delivered) = 2
    /\ Len(buf) > 0

\* Element j of the array text s is no record while the elements before it
\* are records, each followed by a comma.
InvalidAt(s, j) ==
    /\ Len(s) >= 2 * j
    /\ s[1] = "["
    /\ \A i \in 1..(j - 1) : s[2 * i] \in RecordTexts /\ s[2 * i + 1] = ","
    /\ s[2 * j] \notin RecordTexts
    /\ j = 1 => s[2] # "]"

\* C3: when element j of the body is no record while elements 1..j-1 are, and
\* no callback invocation fails, the callback is invoked for elements 1..j-1
\* only, in order, and the call fails with a MalformedPayload error that wraps
\* the decoder's error; what was delivered stays delivered.
C3_InvalidElementFails ==
    \A j \in 1..Len(sent) :
        (op \in DecodingOps /\ InvalidAt(sent, j) /\ cbRet = Nil)
            => /\ Len(delivered) <= j - 1
               /\ delivered = Elements(sent, Len(delivered))
               /\ pc = "done"
                    => /\ delivered = Elements(sent, j - 1)
                       /\ MalformedPayload(err)
                       /\ err.cause # ""
                       /\ (j > 1 \/ sent[2] # "}")
                            => err.msg = "decode card object"

C3_Witness ==
    /\ pc = "done"
    /\ InvalidAt(sent, 2)
    /\ sent[4] = Scalar
    /\ Len(delivered) = 1
    /\ err = Err("decode card object", "type", 0)

\* The body ends before its first token, or its first token is not "[".
FirstTokenNotOpen ==
    \/ sent = <<>> /\ eof
    \/ sent # <<>> /\ sent[1] # "["

\* C4 as stated: in each of these cases the call fails with "expected '[' at
\* start of bulk data", the callback never invoked.
C4_Original ==
    (op \in DecodingOps /\ pc = "done" /\ FirstTokenNotOpen)
        => /\ err = Err("expected '[' at start of bulk data", "", 0)
           /\ delivered = <<>>

\* C4, amended: when the first token is a value other than "[" (an object, a
\* number, a string) the call fails with "expected '[' at start of bulk
\* data"; when the body is exhausted or malformed at its first token the call
\* fails with "decode opening bracket" wrapping the tokenizer's error; in
\* both cases the callback is never invoked.
C4_FirstTokenFails ==
    (op \in DecodingOps /\ FirstTokenNotOpen)
        => /\ delivered = <<>>
           /\ pc = "done"
                => IF sent # <<>> /\ sent[1] \in RecordTexts \cup {Scalar}
                   THEN err = Err("expected '[' at start of bulk data", "", 0)
                   ELSE /\ err.msg = "decode opening bracket"
                        /\ err.cause \in {"EOF", "syntax"}

C4_Witness ==
    /\ op = "ProcessBulkDataStream"
    /\ pc = "done"
    /\ sent = <<>>
    /\ eof
    /\ err = Err("decode opening bracket", "EOF", 0)

\* C5: DownloadBulkData over a successful response whose body is an array of
\* N records returns nil and exactly the N records in input order, which are
\* the records DownloadBulkDataStream delivered to its callback.
C5_MaterializeEqualsStream ==
    (op = "DownloadBulkData" /\ pc = "done" /\ status = 200
     /\ WellFormedArray(sent))
        => /\ err = Nil
           /\ cards = Elements(sent, Count(sent))
           /\ cards = delivered

C5_Witness ==
    /\ op = "DownloadBulkData"
    /\ pc = "done"
    /\ status = 200
    /\ sent = <<"[", "{card-1}", ",", "{card-2}", "]">>
    /\ cards = <<[ID |-> "card-1"], [ID |-> "card-2"]>>
    /\ err = Nil

\* C6: a call of an operation that takes a required argument (GetCardByID,
\* GetBulkDataByType, DownloadBulkDataStream, DownloadBulkData,
\* DownloadToFile) with the empty argument has failed with the operation's
\* InvalidArgument error, and has issued no HTTP request (nor passed the rate
\* limiter, nor read a body).
C6_EmptyArgumentNoRequest ==
    /\ (op \in DownloadOps /\ uri = "")
          => /\ pc = "done"
             /\ err = Err("download URI is required", "", 0)
             /\ requests = 0
             /\ sent = <<>>
    /\ \A p \in Callers :
          (calls[p].op \in {"GetCardByID", "GetBulkDataByType"}
           /\ calls[p].arg = "")
              => /\ calls[p].pc = "done"
                 /\ calls[p].err.msg =
                       (IF calls[p].op = "GetCardByID"
                        THEN "card id is required"
                        ELSE "bulk type is required")
                 /\ calls[p].reqs = 0
                 /\ calls[p].taken = 0
                 /\ calls[p].dest = "none"

C6_Witness ==
    /\ calls[1].op = "GetCardByID"
    /\ calls[1].arg = ""
    /\ calls[1].pc = "done"
    /\ calls[2].op = "GetBulkDataByType"
    /\ calls[2].arg = ""
    /\ calls[2].pc = "done"
    /\ tokens = Burst
    /\ refilled = 0

\* C7: an endpoint call whose response has a status >= 400 fails with an
\* error that carries the status: an APIError with that StatusCode and the
\* details and type of the body when the body decodes or is empty, the decode
\* (or read) failure wrapped with the status otherwise.  The result is not
\* populated.
C7_ErrorStatusCarried ==
    \A p \in Callers :
        LET c == calls[p] IN
        (c.pc = "done" /\ c.status >= 400)
            => /\ c.err # Nil
               /\ c.err.code = c.status
               /\ c.dest = "none"
               /\ CASE c.body = ErrorJSON
                         -> /\ c.err.msg = "scryfall api error"
                            /\ c.err.details = "slow down"
                            /\ c.err.type = "rate_limited"
                    [] c.body \in {"", ResultJSON}
                         -> /\ c.err.msg = "scryfall api error"
                            /\ c.err.details = ""
                            /\ c.err.type = ""
                    [] OTHER
                         -> /\ c.err.msg = "scryfall error status"
                            /\ c.err.cause # ""

C7_Witness ==
    /\ calls[1].pc = "done"
    /\ calls[1].op = "GetCardByID"
    /\ calls[1].status = 429
    /\ calls[1].body = ErrorJSON
    /\ calls[1].err.code = 429
    /\ calls[1].err.details = "slow down"
    /\ calls[2].pc = "done"
    /\ calls[2].status = 404
    /\ calls[2].body = "<html>"

\* C8: a bulk download call whose response has a status >= 400 has failed
\* with the DownloadFailed error naming that status; the record callback and
\* the progress callback were never invoked and no byte of the body was read,
\* decoded or copied.
C8_DownloadFailed ==
    (op \in DownloadOps /\ status >= 400)
        => /\ pc = "done"
           /\ err = Err("download failed with status", "", status)
           /\ delivered = <<>>
           /\ progress = <<>>
           /\ sent = <<>>
           /\ cards = <<>>
           /\ written = <<>>

C8_Witness ==
    /\ op = "DownloadBulkDataStream"
    /\ progressFn
    /\ status = 404
    /\ pc = "done"
    /\ err.code = 404
    /\ requests = 1

StrictlyIncreasing(s) == \A i \in 1..(Len(s) - 1) : s[i] < s[i + 1]
NonDecreasing(s) == \A i \in 1..(Len(s) - 1) : s[i] <= s[i + 1]

\* The call has read the body at least once.
HasRead == sent # <<>> \/ eof

\* C9 as stated: the running totals passed to the progress callback are
\* strictly increasing, with the callback invoked after every read.
C9_Original ==
    (progressFn /\ HasRead)
        => /\ Len(progress) >= 1
           /\ StrictlyIncreasing(progress)
           /\ progress[Len(progress)] = Len(sent)

\* C9, amended: when a progress callback is supplied, once the body has been
\* read the callback has been invoked at least once, the running totals passed
\* to successive invocations never decrease (a read that returns zero bytes
\* at end-of-stream repeats the total), and the total of the last invocation
\* is the number of bytes read from the body.
C9_ProgressTotals ==
    (progressFn /\ HasRead)
        => /\ Len(progress) >= 1
           /\ NonDecreasing(progress)
           /\ progress[Len(progress)] = Len(sent)
           /\ progress[Len(progress)] = Current

C9_Witness ==
    /\ op = "DownloadBulkDataStream"
    /\ progressFn
    /\ pc = "done"
    /\ err = Nil
    /\ progress = <<1, 3, 5>>

\* The call of caller p has entered get: it is made, and its argument check
\* (which comes before get) has not failed.
EnteredGet(p) ==
    /\ calls[p].op # "none"
    /\ ~(calls[p].op \in {"GetCardByID", "GetBulkDataByType"}
         /\ calls[p].arg = "")

\* Per caller: a caller's HTTP request comes after its admission by
\* the limiter, an admitted call has taken exactly one event of the limiter,
\* and a call that entered get with its context cancelled, or whose context
\* was cancelled during the wait, has returned the rate-limit-wait error and
\* issued no request.
C10_State ==
    \A p \in Callers :
        LET c == calls[p] IN
        /\ c.reqs <= c.taken
        /\ c.taken <= 1
        /\ c.pc = "admitted" => c.taken = 1
        /\ c.pc = "waiting" => c.taken = 0 /\ c.reqs = 0
        /\ (c.cancelled /\ EnteredGet(p))
              => /\ c.pc = "done"
                 /\ c.err = Err("wait for rate limiter", "context canceled", 0)
                 /\ c.reqs = 0
                 /\ c.taken = 0
        /\ c.err.msg = "wait for rate limiter" => c.reqs = 0

\* The events of the limiter the calls of callers 1..n have taken.
RECURSIVE Taken(_)
Taken(n) == IF n = 0 THEN 0 ELSE calls[n].taken + Taken(n - 1)

\* C10: for any interleaving of concurrent endpoint calls sharing one rate
\* limiter, every HTTP request of a call follows that call's admission, each
\* admitted call has consumed exactly one unit of the limiter's budget (what
\* the limiter permits now is its burst and what time has added, less one
\* unit for each admitted call), and a call cancelled before or during the
\* wait returns the rate-limit-wait error without a request.
C10_GateAdmits ==
    /\ C10_State
    /\ tokens >= 0
    /\ tokens + Taken(NumCallers) = Burst + refilled

C10_Witness ==
    /\ calls[1].pc = "done"
    /\ calls[1].reqs = 1
    /\ calls[1].taken = 1
    /\ calls[2].pc = "done"
    /\ calls[2].cancelled
    /\ calls[2].err.msg = "wait for rate limiter"
    /\ tokens = 0

\* The lexemes of an opening bracket and k records with a comma between each
\* two.
Opened(k) == IF k = 0 THEN 1 ELSE 2 * k

\* Array text s is an opening bracket and k records, after which the record
\* loop ends.
RecordsThenEnd(s, k) ==
    /\ Len(s) >= Opened(k)
    /\ s[1] = "["
    /\ \A i \in 1..k : s[2 * i] \in RecordTexts
    /\ \A i \in 1..(k - 1) : s[2 * i + 1] = ","

\* After the k records the body ends without the closing delimiter.
CloseAbsent(k) == RecordsThenEnd(sent, k) /\ Len(sent) = Opened(k) /\ eof

\* After the k records a stray closing brace comes.
CloseStray(k) ==
    /\ RecordsThenEnd(sent, k)
    /\ Len(sent) > Opened(k)
    /\ sent[Opened(k) + 1] = "}"

\* C11 as stated: in both cases the call fails with "expected ']' at end of
\* bulk data".
C11_Original ==
    \A k \in 0..Len(sent) :
        (op \in DecodingOps /\ pc = "done" /\ cbRet = Nil
         /\ (CloseAbsent(k) \/ CloseStray(k)))
            => err = Err("expected ']' at end of bulk data", "", 0)

\* C11, amended: after the record loop ends, if the array-close delimiter is
\* absent (the body ends after the last record) or the body is malformed at
\* that point (a stray closing brace), the call fails with the MalformedPayload
\* error "decode closing bracket" wrapping the tokenizer's error (end of input,
\* or a syntax error); the records already delivered remain delivered, and
\* success is never returned for an array that is not closed.
C11_ClosingFails ==
    /\ \A k \in 0..Len(sent) :
          (op \in DecodingOps /\ cbRet = Nil
           /\ (CloseAbsent(k) \/ CloseStray(k)))
              => /\ Len(delivered) <= k
                 /\ delivered = Elements(sent, Len(delivered))
                 /\ pc = "done"
                      => /\ delivered = Elements(sent, k)
                         /\ MalformedPayload(err)
                         /\ err.msg = "decode closing bracket"
                         /\ err.cause = (IF CloseAbsent(k) THEN "EOF"
                                         ELSE "syntax")
    /\ (op \in DecodingOps /\ pc = "done" /\ err = Nil)
          => WellFormedArray(Scanned)

C11_Witness ==
    /\ op = "ProcessBulkDataStream"
    /\ pc = "done"
    /\ sent = <<"[", "{card-1}">>
    /\ eof
    /\ delivered = <<[ID |-> "card-1"]>>
    /\ err = Err("decode closing bracket", "EOF", 0)

\* C12: when a call that obtained an HTTP response (get,
\* DownloadBulkDataStream, DownloadBulkData, DownloadToFile) has returned, on
\* whichever exit path (error status, decode failure, callback failure, copy
\* failure, success), the response body is closed, and so is the destination
\* file of DownloadToFile once it was opened: no handle the call opened is
\* still open.  The handles are open while the call streams or copies.
C12_HandlesClosed ==
    /\ pc = "done" => ~bodyOpen /\ ~fileOpen
    /\ \A p \in Callers : calls[p].pc = "done" => ~calls[p].bodyOpen
    /\ (op \in DownloadOps /\ pc \in {"open", "more", "decode", "callback",
                                      "close", "create", "copy"}) => bodyOpen
    /\ pc = "copy" => fileOpen
    /\ fileOpen => op = "DownloadToFile"

C12_Witness ==
    /\ op = "DownloadToFile"
    /\ pc = "done"
    /\ status = 200
    /\ err = Err("copy to file", "write", 0)
    /\ written # <<>>
    /\ ~bodyOpen
    /\ ~fileOpen

\* C13: when DownloadBulkData fails part-way through the body (element j is
\* no record, or the closing delimiter is missing after k records), it returns
\* beside the error the records delivered before the failure, in order
\* (elements 1..j-1, or 1..k), not a nil result; what it returns beside an
\* error is empty only when no record was delivered before the failure, as
\* when the location is empty, the request fails, the status is >= 400 or the
\* opening token is bad.
C13_PartialReturned ==
    (op = "DownloadBulkData" /\ pc = "done")
        => /\ \A j \in 1..Len(sent) :
                 InvalidAt(sent, j)
                     => err # Nil /\ result = Elements(sent, j - 1)
           /\ \A k \in 0..Len(sent) :
                 (CloseAbsent(k) \/ CloseStray(k))
                     => err # Nil /\ result = Elements(sent, k)
           /\ result = delivered
           /\ (err # Nil /\ result = <<>>) => RecordsIn(Scanned) = <<>>
           /\ (\/ uri = ""
               \/ ~UrlParses(uri)
               \/ err.msg = "perform request"
               \/ status >= 400
               \/ FirstTokenNotOpen) => err # Nil /\ result = <<>>

C13_Witness ==
    /\ op = "DownloadBulkData"
    /\ pc = "done"
    /\ status = 200
    /\ InvalidAt(sent, 2)
    /\ sent[2] = "{card-2}"
    /\ err = Err("decode card object", "type", 0)
    /\ result = <<[ID |-> "card-2"]>>
====
